---- MODULE Spec2Model ----
(***************************************************************************)
(* Model of hup.io.plain (src/hup/io/plain.py): the context manager openx  *)
(* and the helpers load, save, get_comment and get_content built on it.    *)
(*                                                                         *)
(* A text is a sequence of code points.  The world holds one                *)
(* file reference `file` (a path, a caller-supplied text stream, a         *)
(* caller-supplied binary stream, a connector that opens a binary handle,  *)
(* or an unsupported object); a single caller invokes the helpers on it,   *)
(* one call after the other.  hup.io.FileConnector is defined outside this  *)
(* module; its constructor, open and close follow the documented connector *)
(* contract.                                                               *)
(***************************************************************************)
EXTENDS Integers, Sequences, FiniteSets

(***************************************************************************)
(* Bounds of the model                                                     *)
(***************************************************************************)
\* longest initial file, counted in lines
MaxLines == 3
\* longest text handed to save, counted in characters
MaxText == 2
\* a caller writes to its own stream only up to this position
MaxWrite == 3
\* largest value of the `lines` parameter of get_content
MaxLimit == 2

(***************************************************************************)
(* Python str helpers, on sequences of characters                          *)
(***************************************************************************)
\* ord(c) of the characters the inputs are written with
Ord(c) ==
    CASE c = "\t" -> 9
      [] c = "\n" -> 10
      [] c = "\f" -> 12
      [] c = "\r" -> 13
      [] c = " " -> 32
      [] c = "#" -> 35
      [] c = "a" -> 97

\* the text of a sequence of characters
Text(cs) == [i \in 1..Len(cs) |-> Ord(cs[i])]

\* the code points c with c.isspace(): what str.strip() removes
Whitespace ==
    (9..13) \cup (28..32) \cup {133, 160, 5760} \cup (8192..8202)
        \cup {8232, 8233, 8239, 8287, 12288}

\* c.isspace()
IsSpace(c) == c \in Whitespace

\* c in s
HasChar(s, c) == \E i \in 1..Len(s) : s[i] = c

RECURSIVE Lstrip(_)
\* str.lstrip()
Lstrip(s) == IF s # <<>> /\ IsSpace(s[1]) THEN Lstrip(Tail(s)) ELSE s

RECURSIVE Rstrip(_)
\* str.rstrip()
Rstrip(s) ==
    IF s # <<>> /\ IsSpace(s[Len(s)]) THEN Rstrip(SubSeq(s, 1, Len(s) - 1)) ELSE s

\* str.strip()
Strip(s) == Rstrip(Lstrip(s))

RECURSIVE RstripCRLF(_)
\* str.rstrip('\r\n')
RstripCRLF(s) ==
    IF s # <<>> /\ s[Len(s)] \in {Ord("\r"), Ord("\n")}
    THEN RstripCRLF(SubSeq(s, 1, Len(s) - 1))
    ELSE s

\* str.startswith('#')
StartsWithHash(s) == s # <<>> /\ s[1] = Ord("#")

RECURSIVE Join(_)
\* ''.join(parts)
Join(parts) == IF parts = <<>> THEN <<>> ELSE parts[1] \o Join(Tail(parts))

(***************************************************************************)
(* Text streams                                                            *)
(***************************************************************************)
RECURSIVE UniversalNewlines(_)
\* decoding of a text-mode read (newline=None): "\r\n" and "\r" become "\n"
UniversalNewlines(s) ==
    IF s = <<>> THEN <<>>
    ELSE IF s[1] = Ord("\r")
         THEN IF Len(s) >= 2 /\ s[2] = Ord("\n")
              THEN <<Ord("\n")>> \o UniversalNewlines(SubSeq(s, 3, Len(s)))
              ELSE <<Ord("\n")>> \o UniversalNewlines(Tail(s))
         ELSE <<s[1]>> \o UniversalNewlines(Tail(s))

RECURSIVE WriteNewlines(_, _)
\* encoding of a text-mode write (newline=None): "\n" becomes os.linesep
WriteNewlines(s, sep) ==
    IF s = <<>> THEN <<>>
    ELSE (IF s[1] = Ord("\n") THEN sep ELSE <<s[1]>>) \o WriteNewlines(Tail(s), sep)

RECURSIVE LineEnd(_, _)
\* index of the last character of the line that starts after position p:
\* the next "\n", or the end of the buffer
LineEnd(b, p) ==
    IF p + 1 >= Len(b) \/ b[p + 1] = Ord("\n") THEN p + 1 ELSE LineEnd(b, p + 1)

\* TextIOBase.readline at position p (p < Len(b))
ReadLine(b, p) == SubSeq(b, p + 1, LineEnd(b, p))

RECURSIVE SplitLines(_, _)
\* list(fh): every line the stream yields from position p on
SplitLines(b, p) ==
    IF p >= Len(b) THEN <<>>
    ELSE <<ReadLine(b, p)>> \o SplitLines(b, LineEnd(b, p))

(***************************************************************************)
(* Inputs                                                                  *)
(***************************************************************************)
\* the lines initial files are made of: comment, blank, content, comment
\* without text behind a blank and a form feed, content with blanks and CRLF,
\* comment without newline
InputLines ==
    { Text(<<"#", " ", "a", "\n">>),
      Text(<<"\n">>),
      Text(<<"a", "\n">>),
      Text(<<" ", "\f", "#", "\n">>),
      Text(<<" ", "a", " ", "\r", "\n">>),
      Text(<<"#", "a">>) }

FileTexts == { Join(ls) : ls \in UNION { [1..n -> InputLines] : n \in 0..MaxLines } }

SaveChars == {Ord("a"), Ord("\n"), Ord("\r")}

\* initial content of a stream the caller can write to
StreamTexts == { <<>> } \cup InputLines

\* what a caller-supplied text stream is open for: reading, writing, both in
\* memory (io.StringIO), both on a file (open(p, 'r+'))
StreamModes == {"r", "w", "rw", "r+"}

SaveTexts == UNION { [1..n -> SaveChars] : n \in 0..MaxText }

\* mode strings handed to openx
Modes == { <<"r">>, <<"w">>, <<"r", "t">>, <<"w", "t">>, <<"t", "r">>, <<"r", "b">> }

Limits == (-1)..MaxLimit

RefKinds == {"path", "stream", "binstream", "connector", "badref"}

LineSeps == { Text(<<"\n">>), Text(<<"\r", "\n">>) }

(***************************************************************************)
(* State                                                                   *)
(***************************************************************************)
VARIABLES
    kind,        \* shape of the file reference `file`
    linesep,     \* os.linesep of the platform
    exists,      \* whether the path names an existing file
    disk,        \* content of the file the path names
    handle,      \* filesystem handle of the connector: "none", "open", "closed"
    sclosed,     \* whether the caller-supplied stream is closed
    smode,       \* what the caller-supplied stream is open for
    buf,         \* content of the stream fh: decoded for reading, as written for writing
    pos,         \* position of the stream fh
    op,          \* helper being executed
    pc,          \* position of the caller: "idle", "block", "exit", "after", "done", "raised"
    modeArg,     \* mode argument of openx
    modeOpen,    \* mode handed to cman.open
    openCount,   \* invocations of cman.open in the current openx
    closeCount,  \* invocations of cman.close in the current openx
    fhText,      \* whether fh is an io.TextIOBase
    text,        \* text argument of save
    limit,       \* lines argument of get_content
    lines,       \* accumulator of get_comment
    content,     \* accumulator of get_content
    result,      \* value returned to the caller
    err,         \* exception in flight or surfaced to the caller
    exitKind,    \* how the with block was left
    ahead,       \* text a caller's file stream has decoded and not yet handed out
    pending,     \* text written to a caller's file stream and not yet in the file
    avail,       \* text the line iteration of fh had to offer when the block was entered
    saved,       \* whether the content of the file stems from a completed save
    savedText    \* the text argument of that save

vars == << kind, linesep, smode, exists, disk, handle, sclosed, buf, pos, op, pc,
           modeArg, modeOpen, openCount, closeCount, fhText, text, limit,
           lines, content, result, err, exitKind, ahead, pending, avail, saved,
           savedText >>

world == << kind, linesep, smode >>

Init ==
    /\ kind \in RefKinds
    /\ linesep \in (IF kind = "path" THEN LineSeps ELSE { Text(<<"\n">>) })
    /\ smode \in (IF kind = "stream" THEN StreamModes ELSE {"none"})
    /\ exists \in (IF kind = "path" THEN BOOLEAN ELSE {FALSE})
    /\ disk \in (IF kind = "path" /\ exists THEN FileTexts ELSE { <<>> })
    /\ buf \in (CASE smode = "r" -> FileTexts
                 [] smode \in {"rw", "r+"} -> StreamTexts
                 [] OTHER -> { <<>> })
    /\ handle = "none"
    /\ sclosed = FALSE
    /\ pos = 0
    /\ op = "none"
    /\ pc = "idle"
    /\ modeArg = <<>>
    /\ modeOpen = <<>>
    /\ openCount = 0
    /\ closeCount = 0
    /\ fhText = FALSE
    /\ text = <<>>
    /\ limit = 0
    /\ lines = <<>>
    /\ content = <<>>
    /\ result = <<>>
    /\ err = "none"
    /\ exitKind = "none"
    /\ ahead = <<>>
    /\ pending = <<>>
    /\ avail = <<>>
    /\ saved = FALSE
    /\ savedText = <<>>

(***************************************************************************)
(* FileConnector: constructor, open and close                              *)
(***************************************************************************)
\* FileConnector(file): fails for an unsupported reference
ConnInit(k) == IF k = "badref" THEN "ResolutionError" ELSE "none"

\* cman.open(mode=m): the failure if any, whether the returned handle is a
\* text stream, and whether the connector acquired a filesystem handle
ConnOpen(k, m, ex) ==
    CASE k = "path" ->
           IF HasChar(m, "b")
           THEN [fail |-> "ValueError: invalid mode", istext |-> FALSE, owned |-> FALSE]
           ELSE IF HasChar(m, "w")
           THEN [fail |-> "none", istext |-> TRUE, owned |-> TRUE]
           ELSE IF ~HasChar(m, "r")
           THEN [fail |-> "ValueError: invalid mode", istext |-> FALSE, owned |-> FALSE]
           ELSE IF ex
           THEN [fail |-> "none", istext |-> TRUE, owned |-> TRUE]
           ELSE [fail |-> "FileNotFoundError", istext |-> FALSE, owned |-> FALSE]
      [] k = "stream" -> [fail |-> "none", istext |-> TRUE, owned |-> FALSE]
      [] k = "binstream" -> [fail |-> "none", istext |-> FALSE, owned |-> FALSE]
      [] k = "connector" -> [fail |-> "none", istext |-> FALSE, owned |-> TRUE]
      [] OTHER -> [fail |-> "ResolutionError", istext |-> FALSE, owned |-> FALSE]

\* cman.close(): releases the handle the connector acquired, leaves a
\* caller-supplied stream alone
ConnClose(h, sc) ==
    [handle |-> IF h = "open" THEN "closed" ELSE h, sclosed |-> sc]

\* closing a handle opened for writing flushes the text written through it:
\* the file receives it with each "\n" encoded as os.linesep
Flushed(d, b, sep) == d \o WriteNewlines(b, sep)

\* whether the stream fh can be read: a caller-supplied stream as it was
\* opened, a handle of the connector by the mode of its open
CanRead(k, sm, m) ==
    IF k = "stream" THEN sm \in {"r", "rw", "r+"} ELSE HasChar(m, "r")

\* whether the stream fh can be written
CanWrite(k, sm, m) ==
    IF k = "stream" THEN sm \in {"w", "rw", "r+"} ELSE HasChar(m, "w")

\* what a stream decodes from the rest of its file: the content behind
\* position p, with universal newlines
Chunk(b, p) == UniversalNewlines(SubSeq(b, p + 1, Len(b)))

\* the text a stream has to offer to a read: behind its position, and for
\* a caller's file stream what it holds decoded followed by the rest of the file
Avail(sm, a, b, p) ==
    IF sm = "r+" THEN a \o Chunk(b, p) ELSE SubSeq(b, p + 1, Len(b))

\* next(fh) of the line iteration: whether the stream is exhausted, the line,
\* and the stream afterwards.  A caller's file stream hands out lines of the
\* text it holds decoded; when that holds no complete line it first decodes
\* the rest of the file, without writing its pending text
NextLine(sm, a, b, p) ==
    IF sm = "r+"
    THEN LET fill == ~HasChar(a, Ord("\n"))
             a1 == IF fill THEN a \o Chunk(b, p) ELSE a
             p1 == IF fill THEN Len(b) ELSE p
         IN  IF a1 = <<>>
             THEN [eof |-> TRUE, line |-> <<>>, ahead |-> <<>>, pos |-> p1]
             ELSE [eof |-> FALSE, line |-> ReadLine(a1, 0),
                   ahead |-> SubSeq(a1, LineEnd(a1, 0) + 1, Len(a1)), pos |-> p1]
    ELSE IF p >= Len(b)
         THEN [eof |-> TRUE, line |-> <<>>, ahead |-> a, pos |-> p]
         ELSE [eof |-> FALSE, line |-> ReadLine(b, p), ahead |-> a,
               pos |-> LineEnd(b, p)]

(***************************************************************************)
(* openx                                                                   *)
(***************************************************************************)
\* variant of TextMode: the mode is handed on as supplied
TextModeAsGiven(m) == m

\* if 't' not in mode: mode += 't'
TextMode(m) == IF ~HasChar(m, "t") THEN Append(m, "t") ELSE m

\* variant of IsTextIO: the handle is not validated
IsTextIOUnchecked(r) == TRUE

\* isinstance(fh, io.TextIOBase)
IsTextIO(r) == r.istext

\* variant of Cleanup: fh.close() instead of cman.close()
CleanupHandle(k, h, sc) ==
    [handle |-> IF h = "open" THEN "closed" ELSE h, sclosed |-> sc \/ k = "stream"]

\* cleanup of openx: cman.close()
Cleanup(k, h, sc) == ConnClose(h, sc)

\* variant of Finally: cleanup after the yield without try/finally, skipped
\* when the block raises
FinallyUnlessRaised(ek) == ek \in {"normal", "return", "break"}

\* try/finally around the yield: the cleanup runs for every kind of exit
Finally(ek) == ek \in {"normal", "return", "break", "error"}

\* openx(file, mode=m) up to the yield, on behalf of helper o
Enter(o, m, t, n) ==
    /\ pc = "idle"
    /\ op' = o
    /\ modeArg' = m
    /\ text' = t
    /\ limit' = n
    /\ lines' = <<>>
    /\ content' = <<>>
    /\ result' = <<>>
    /\ exitKind' = "none"
    /\ UNCHANGED << world, sclosed, ahead, pending >>
    /\ IF ConnInit(kind) # "none"
       THEN /\ err' = ConnInit(kind)
            /\ pc' = "raised"
            /\ modeOpen' = <<>>
            /\ openCount' = 0
            /\ closeCount' = 0
            /\ handle' = "none"
            /\ fhText' = FALSE
            /\ avail' = <<>>
            /\ UNCHANGED << exists, disk, buf, pos, saved, savedText >>
       ELSE LET r == ConnOpen(kind, TextMode(m), exists)
                writing == kind = "path" /\ HasChar(TextMode(m), "w")
            IN  /\ modeOpen' = TextMode(m)
                /\ openCount' = 1
                /\ fhText' = r.istext
                /\ IF r.fail # "none"
                   THEN /\ err' = r.fail
                        /\ pc' = "raised"
                        /\ closeCount' = 0
                        /\ handle' = "none"
                        /\ avail' = <<>>
                        /\ UNCHANGED << exists, disk, buf, pos, saved, savedText >>
                   ELSE /\ exists' = IF writing THEN TRUE ELSE exists
                        /\ disk' = IF writing THEN <<>> ELSE disk
                        /\ saved' = IF writing THEN FALSE ELSE saved
                        /\ savedText' = IF writing THEN <<>> ELSE savedText
                        /\ buf' = IF kind = "path"
                                  THEN (IF writing THEN <<>> ELSE UniversalNewlines(disk))
                                  ELSE buf
                        /\ pos' = IF kind = "path" THEN 0 ELSE pos
                        /\ avail' = Avail(smode, ahead, buf', pos')
                        /\ IF ~IsTextIO(r)
                           THEN /\ handle' = Cleanup(kind, IF r.owned THEN "open" ELSE "none",
                                                     sclosed).handle
                                /\ closeCount' = 1
                                /\ err' = "ValueError: not a text file"
                                /\ pc' = "raised"
                           ELSE /\ handle' = IF r.owned THEN "open" ELSE "none"
                                /\ closeCount' = 0
                                /\ err' = "none"
                                /\ pc' = "block"

\* leaving the with block: the finally clause of openx; the handle a
\* connector closes is flushed
OpenxExit ==
    /\ pc = "exit"
    /\ IF Finally(exitKind)
       THEN /\ handle' = Cleanup(kind, handle, sclosed).handle
            /\ sclosed' = Cleanup(kind, handle, sclosed).sclosed
            /\ closeCount' = closeCount + 1
       ELSE UNCHANGED << handle, sclosed, closeCount >>
    /\ LET flush == /\ kind = "path"
                    /\ HasChar(modeOpen, "w")
                    /\ handle = "open"
                    /\ handle' = "closed"
           done == flush /\ op = "save" /\ exitKind = "normal"
       IN  /\ disk' = IF flush THEN Flushed(disk, buf, linesep) ELSE disk
           /\ saved' = IF done THEN TRUE ELSE saved
           /\ savedText' = IF done THEN text ELSE savedText
    /\ pc' = IF exitKind = "error" THEN "raised"
             ELSE IF op \in {"get_comment", "get_content"} THEN "after"
             ELSE "done"
    /\ UNCHANGED << world, exists, buf, pos, op, modeArg, modeOpen, openCount,
                    fhText, text, limit, lines, content, result, err, exitKind,
                    ahead, pending, avail >>

(***************************************************************************)
(* load and save                                                           *)
(***************************************************************************)
\* load(file): with openx(file, mode='r') as fh
Load == Enter("load", <<"r">>, <<>>, 0)

\* the file of a caller's stream once the text w it holds pending is written
\* at position p: the text replaces what the file held from p on
FlushedAt(b, p, w) == SubSeq(b, 1, p) \o w \o SubSeq(b, p + Len(w) + 1, Len(b))

\* return fh.read(); a stream that is open for writing only refuses, a
\* caller's file stream first writes its pending text at its position
LoadRead ==
    /\ pc = "block"
    /\ op = "load"
    /\ IF ~CanRead(kind, smode, modeOpen)
       THEN /\ err' = "UnsupportedOperation"
            /\ exitKind' = "error"
            /\ UNCHANGED << result, buf, pos, ahead, pending >>
       ELSE /\ exitKind' = "return"
            /\ err' = "none"
            /\ ahead' = <<>>
            /\ pending' = <<>>
            /\ LET b1 == IF smode = "r+" THEN FlushedAt(buf, pos, pending) ELSE buf
                   p1 == IF smode = "r+" THEN pos + Len(pending) ELSE pos
               IN  /\ buf' = b1
                   /\ result' = Avail(smode, ahead, b1, p1)
                   /\ pos' = Len(b1)
    /\ pc' = "exit"
    /\ UNCHANGED << world, exists, disk, handle, sclosed, op, modeArg, modeOpen,
                    openCount, closeCount, fhText, text, limit, lines, content,
                    avail, saved, savedText >>

\* save(text, file): with openx(file, mode='w') as fh
\* the caller writes to a stream of its own only below position MaxWrite
Save ==
    \E t \in SaveTexts :
        /\ kind = "stream" /\ smode # "r" => pos + Len(pending) + Len(t) <= MaxWrite
        /\ Enter("save", <<"w">>, t, 0)

\* variant of Written: a line terminator is appended to the text
WrittenLine(b, p, t) ==
    SubSeq(b, 1, p) \o t \o <<Ord("\n")>> \o SubSeq(b, p + Len(t) + 2, Len(b))

\* content of the stream after fh.write(text) at position p: the text
\* replaces what the stream held from p on, as far as it reaches
Written(b, p, t) == SubSeq(b, 1, p) \o t \o SubSeq(b, p + Len(t) + 1, Len(b))

\* fh.write(text); a stream that is open for reading only refuses, a
\* caller's file stream keeps the text pending and drops what it holds decoded
SaveWrite ==
    /\ pc = "block"
    /\ op = "save"
    /\ IF ~CanWrite(kind, smode, modeOpen)
       THEN /\ err' = "UnsupportedOperation"
            /\ exitKind' = "error"
            /\ UNCHANGED << buf, pos, ahead, pending >>
       ELSE /\ exitKind' = "normal"
            /\ err' = "none"
            /\ IF smode = "r+"
               THEN /\ pending' = Written(pending, Len(pending), text)
                    /\ ahead' = <<>>
                    /\ UNCHANGED << buf, pos >>
               ELSE /\ buf' = Written(buf, pos, text)
                    /\ pos' = pos + Len(text)
                    /\ UNCHANGED << ahead, pending >>
    /\ pc' = "exit"
    /\ UNCHANGED << world, exists, disk, handle, sclosed, op, modeArg, modeOpen,
                    openCount, closeCount, fhText, text, limit, lines, content,
                    result, avail, saved, savedText >>

(***************************************************************************)
(* get_comment                                                             *)
(***************************************************************************)
\* get_comment(file): with openx(file, mode='r') as fh
GetComment == Enter("get_comment", <<"r">>, <<>>, 0)

\* variant of CommentLine: a blank line ends the scan
CommentLineBlankEnds(line) ==
    LET lstrip == Lstrip(line)
    IN  IF Rstrip(lstrip) = <<>> THEN "break"
        ELSE IF ~StartsWithHash(lstrip) THEN "break"
        ELSE "append"

\* body of the loop for one line: "continue", "break" or "append"
CommentLine(line) ==
    LET lstrip == Lstrip(line)
    IN  IF Rstrip(lstrip) = <<>> THEN "continue"
        ELSE IF ~StartsWithHash(lstrip) THEN "break"
        ELSE "append"

\* lstrip[1:].lstrip()
CommentText(line) == Lstrip(Tail(Lstrip(line)))

\* ''.join(lines).rstrip()
CommentHeader(ls) == Rstrip(Join(ls))

\* one iteration of: for line in fh
GetCommentStep ==
    /\ pc = "block"
    /\ op = "get_comment"
    /\ IF ~CanRead(kind, smode, modeOpen)
       THEN /\ pc' = "exit"
            /\ exitKind' = "error"
            /\ err' = "UnsupportedOperation"
            /\ UNCHANGED << pos, ahead, lines >>
       ELSE LET nx == NextLine(smode, ahead, buf, pos)
                line == nx.line
            IN  /\ pos' = nx.pos
                /\ ahead' = nx.ahead
                /\ UNCHANGED err
                /\ CASE nx.eof ->
                          /\ pc' = "exit"
                          /\ exitKind' = "normal"
                          /\ UNCHANGED lines
                     [] ~nx.eof /\ CommentLine(line) = "continue" ->
                          UNCHANGED << pc, exitKind, lines >>
                     [] ~nx.eof /\ CommentLine(line) = "break" ->
                          /\ pc' = "exit"
                          /\ exitKind' = "break"
                          /\ UNCHANGED lines
                     [] OTHER ->
                          /\ lines' = Append(lines, CommentText(line))
                          /\ UNCHANGED << pc, exitKind >>
    /\ UNCHANGED << world, exists, disk, handle, sclosed, buf, op, modeArg, modeOpen,
                    openCount, closeCount, fhText, text, limit, content, result,
                    pending, avail, saved, savedText >>

\* return ''.join(lines).rstrip()
GetCommentReturn ==
    /\ pc = "after"
    /\ op = "get_comment"
    /\ result' = CommentHeader(lines)
    /\ pc' = "done"
    /\ UNCHANGED << world, exists, disk, handle, sclosed, buf, pos, op, modeArg,
                    modeOpen, openCount, closeCount, fhText, text, limit, lines,
                    content, err, exitKind, ahead, pending,
                    avail, saved, savedText >>

(***************************************************************************)
(* get_content                                                             *)
(***************************************************************************)
\* get_content(file, lines=n): with openx(file, mode='r') as fh
GetContent == \E n \in Limits : Enter("get_content", <<"r">>, <<>>, n)

\* variant of LimitReached: off by one
LimitExceeded(n, c) == n # 0 /\ c > n

\* variant of LimitReached: the test for a zero limit is missing
LimitReachedAlways(n, c) == c >= n

\* lines and len(content) >= lines
LimitReached(n, c) == n # 0 /\ c >= n

\* not strip or strip.startswith('#')
SkipLine(line) == Strip(line) = <<>> \/ StartsWithHash(Strip(line))

\* variant of ContentText: line.rstrip()
ContentTextStripped(line) == Rstrip(line)

\* line.rstrip('\r\n')
ContentText(line) == RstripCRLF(line)

\* one iteration of: for line in fh
GetContentStep ==
    /\ pc = "block"
    /\ op = "get_content"
    /\ IF ~CanRead(kind, smode, modeOpen)
       THEN /\ pc' = "exit"
            /\ exitKind' = "error"
            /\ err' = "UnsupportedOperation"
            /\ UNCHANGED << pos, ahead, content >>
       ELSE LET nx == NextLine(smode, ahead, buf, pos)
                line == nx.line
            IN  /\ pos' = nx.pos
                /\ ahead' = nx.ahead
                /\ UNCHANGED err
                /\ IF nx.eof
                   THEN /\ pc' = "exit"
                        /\ exitKind' = "normal"
                        /\ UNCHANGED content
                   ELSE IF LimitReached(limit, Len(content))
                   THEN /\ pc' = "exit"
                        /\ exitKind' = "break"
                        /\ UNCHANGED content
                   ELSE IF SkipLine(line)
                   THEN UNCHANGED << pc, exitKind, content >>
                   ELSE /\ content' = Append(content, ContentText(line))
                        /\ UNCHANGED << pc, exitKind >>
    /\ UNCHANGED << world, exists, disk, handle, sclosed, buf, op, modeArg, modeOpen,
                    openCount, closeCount, fhText, text, limit, lines, result,
                    pending, avail, saved, savedText >>

\* return content
GetContentReturn ==
    /\ pc = "after"
    /\ op = "get_content"
    /\ result' = content
    /\ pc' = "done"
    /\ UNCHANGED << world, exists, disk, handle, sclosed, buf, pos, op, modeArg,
                    modeOpen, openCount, closeCount, fhText, text, limit, lines,
                    content, err, exitKind, ahead, pending,
                    avail, saved, savedText >>

(***************************************************************************)
(* A caller's own with block                                               *)
(***************************************************************************)
\* with openx(file, mode) as fh: a block of the caller
Openx == \E m \in Modes : Enter("openx", m, <<>>, 0)

\* the caller's block completes
BlockEnd ==
    /\ pc = "block"
    /\ op = "openx"
    /\ exitKind' = "normal"
    /\ pc' = "exit"
    /\ UNCHANGED << world, exists, disk, handle, sclosed, buf, pos, op, modeArg,
                    modeOpen, openCount, closeCount, fhText, text, limit, lines,
                    content, result, err, ahead, pending,
                    avail, saved, savedText >>

\* the caller's block raises
BlockRaise ==
    /\ pc = "block"
    /\ op = "openx"
    /\ err' = "BlockError"
    /\ exitKind' = "error"
    /\ pc' = "exit"
    /\ UNCHANGED << world, exists, disk, handle, sclosed, buf, pos, op, modeArg,
                    modeOpen, openCount, closeCount, fhText, text, limit, lines,
                    content, result, ahead, pending,
                    avail, saved, savedText >>

\* the helper's frame is gone: the caller holds the returned value or the
\* exception and goes on to its next call
Resume ==
    /\ pc \in {"done", "raised"}
    /\ pc' = "idle"
    /\ op' = "none"
    /\ modeArg' = <<>>
    /\ modeOpen' = <<>>
    /\ openCount' = 0
    /\ closeCount' = 0
    /\ fhText' = FALSE
    /\ text' = <<>>
    /\ limit' = 0
    /\ lines' = <<>>
    /\ content' = <<>>
    /\ result' = <<>>
    /\ err' = "none"
    /\ exitKind' = "none"
    /\ avail' = <<>>
    /\ handle' = "none"
    /\ UNCHANGED << world, exists, disk, sclosed, buf, pos, ahead, pending, saved,
                    savedText >>

Next ==
    \/ Load
    \/ LoadRead
    \/ Save
    \/ SaveWrite
    \/ GetComment
    \/ GetCommentStep
    \/ GetCommentReturn
    \/ GetContent
    \/ GetContentStep
    \/ GetContentReturn
    \/ Openx
    \/ BlockEnd
    \/ BlockRaise
    \/ OpenxExit
    \/ Resume

Spec == Init /\ [][Next]_vars

(***************************************************************************)
(* Properties.  The expected values are stated on the lines the stream     *)
(* held when the block was entered, without the helpers of the code.       *)
(***************************************************************************)
\* the lines of the file as the current call found them
AllLines == SplitLines(avail, 0)

\* the line holds whitespace only
BlankLine(l) == \A i \in 1..Len(l) : IsSpace(l[i])

\* the first character of the line that is not whitespace is '#'
HashLine(l) ==
    \E i \in 1..Len(l) : l[i] = Ord("#") /\ \A j \in 1..(i - 1) : IsSpace(l[j])

\* index of the first line that is neither blank nor a comment, or one past
\* the last line
FirstDataLine(ls) ==
    LET D == { i \in 1..Len(ls) : ~BlankLine(ls[i]) /\ ~HashLine(ls[i]) }
    IN  IF D = {} THEN Len(ls) + 1 ELSE CHOOSE i \in D : \A j \in D : i <= j

\* the line after its first '#' and the whitespace that follows it
AfterHash(l) ==
    LET h == CHOOSE i \in 1..Len(l) :
                 l[i] = Ord("#") /\ \A j \in 1..(i - 1) : l[j] # Ord("#")
        N == { i \in (h + 1)..Len(l) : ~IsSpace(l[i]) }
        f == IF N = {} THEN Len(l) + 1 ELSE CHOOSE i \in N : \A j \in N : i <= j
    IN  SubSeq(l, f, Len(l))

\* the text without the characters of set S at its end
WithoutTrailing(t, S) ==
    LET K == { i \in 1..Len(t) : t[i] \notin S }
        k == IF K = {} THEN 0 ELSE CHOOSE i \in K : \A j \in K : i >= j
    IN  SubSeq(t, 1, k)

\* the header get_comment is to return for the lines ls
HeaderOf(ls) ==
    LET head == SubSeq(ls, 1, FirstDataLine(ls) - 1)
        hashes == SelectSeq(head, HashLine)
        parts == [i \in 1..Len(hashes) |-> AfterHash(hashes[i])]
    IN  WithoutTrailing(Join(parts), Whitespace)

\* the line carries content: neither blank nor a comment
DataLine(l) == ~BlankLine(l) /\ ~HashLine(l)

\* the content get_content is to return for the lines ls without a limit
ContentOf(ls) ==
    LET data == SelectSeq(ls, DataLine)
    IN  [i \in 1..Len(data) |-> WithoutTrailing(data[i], {Ord("\r"), Ord("\n")})]

\* the smaller of two numbers
Min(a, b) == IF a <= b THEN a ELSE b

\* the block of the current openx was entered
Yielded == exitKind # "none" \/ pc \in {"block", "exit"}

\* C1: whenever the connector's open succeeded with a text stream and the
\* block was entered, close() has not been invoked while the block runs and
\* has been invoked exactly once when control is back outside the block, be
\* the block left by completion, return, break or an error
C1_CloseExactlyOnce ==
    /\ pc \in {"block", "exit"} => closeCount = 0
    /\ pc \in {"after", "done", "raised"} /\ Yielded => closeCount = 1

\* C1 witness: get_comment left its block by break and close ran once
C1_Witness ==
    /\ op = "get_comment"
    /\ pc = "done"
    /\ exitKind = "break"
    /\ closeCount = 1

\* C2: a reference whose open returns a handle that is not a text stream
\* never gets into the block; the call ends with the ValueError of openx,
\* the connector closed exactly once and its handle released
C2_NonTextNeverYields ==
    /\ pc \in {"block", "exit", "after", "done"} => fhText
    /\ op # "none" /\ kind \in {"binstream", "connector"} =>
          /\ pc = "raised"
          /\ err = "ValueError: not a text file"
          /\ exitKind = "none"
          /\ closeCount = 1
          /\ handle # "open"

\* C2 witness: the connector opened a binary handle, openx released it and
\* raised
C2_Witness ==
    /\ kind = "connector"
    /\ pc = "raised"
    /\ err = "ValueError: not a text file"
    /\ handle = "closed"
    /\ closeCount = 1

\* C3: a caller-supplied stream is never closed, on any exit path; a handle
\* the connector opened for a path is closed once control is back outside
\* the block
C3_CallerStreamStaysOpen ==
    /\ kind = "stream" => ~sclosed
    /\ kind = "path" /\ pc \in {"after", "done", "raised"} => handle # "open"
    /\ kind = "path" /\ pc \in {"after", "done"} => handle = "closed"

\* C3 witness: save failed inside its block on a stream the caller had
\* opened for reading, close() ran, and the stream is still open
C3_Witness ==
    /\ kind = "stream"
    /\ smode = "r"
    /\ op = "save"
    /\ pc = "raised"
    /\ exitKind = "error"
    /\ closeCount = 1
    /\ ~sclosed

\* C4 as stated: whenever an error reaches the caller after the connector's
\* open was attempted, close() has been invoked
C4_AsStated == pc = "raised" /\ openCount = 1 => closeCount = 1

\* C4 amended: an error surfaces unchanged and without a second attempt; if
\* it was raised after open succeeded (no text stream, or inside the block)
\* close() has been invoked exactly once before it reaches the caller and
\* the handle is released; if the constructor or open itself failed, close()
\* has not been invoked and no handle is held
C4_ErrorsPropagate ==
    pc = "raised" =>
        /\ openCount <= 1
        /\ IF ConnInit(kind) # "none"
           THEN /\ err = ConnInit(kind)
                /\ openCount = 0
                /\ closeCount = 0
                /\ handle = "none"
           ELSE IF ConnOpen(kind, modeOpen, exists).fail # "none"
           THEN /\ err = ConnOpen(kind, modeOpen, exists).fail
                /\ closeCount = 0
                /\ handle = "none"
           ELSE /\ closeCount = 1
                /\ handle # "open"
                /\ err = IF ~ConnOpen(kind, modeOpen, exists).istext
                         THEN "ValueError: not a text file"
                         ELSE IF op = "openx" THEN "BlockError"
                         ELSE "UnsupportedOperation"

\* C4 witness: the caller's block raised on a path, the handle was closed
\* and the error of the block reached the caller
C4_Witness ==
    /\ kind = "path"
    /\ pc = "raised"
    /\ err = "BlockError"
    /\ closeCount = 1
    /\ handle = "closed"

\* C5 as stated: load after save returns the saved text, for every text
C5_AsStated == op = "load" /\ pc = "done" /\ saved => result = savedText

\* C5 amended: once save has returned the file holds the text, in place of
\* its previous content, with each "\n" written as os.linesep, load returns
\* the whole content decoded with universal newlines, and load after save
\* returns exactly the saved text when that holds no carriage return
C5_RoundTrip ==
    /\ saved =>
          /\ disk = WriteNewlines(savedText, linesep)
          /\ linesep = Text(<<"\n">>) => disk = savedText
    /\ op = "load" /\ pc = "done" /\ kind = "path" => result = UniversalNewlines(disk)
    /\ op = "load" /\ pc = "done" /\ saved /\ ~HasChar(savedText, Ord("\r")) =>
          result = savedText

\* C5 witness: a text with a line terminator was saved and loaded back
C5_Witness ==
    /\ op = "load"
    /\ pc = "done"
    /\ saved
    /\ savedText = Text(<<"a", "\n">>)
    /\ result = Text(<<"a", "\n">>)
    /\ linesep = Text(<<"\r", "\n">>)

\* C6: get_comment returns the right-stripped concatenation of what follows
\* '#' and its whitespace in the comment lines before the first line that is
\* neither blank nor a comment; the result is empty when there is no comment
\* line before that line
C6_Comment ==
    op = "get_comment" /\ pc = "done" =>
        /\ result = HeaderOf(AllLines)
        /\ (\A i \in 1..(FirstDataLine(AllLines) - 1) : BlankLine(AllLines[i]))
              => result = <<>>

\* C6 witness: a comment without text behind a blank and a form feed and a
\* comment with text were collected, and the scan stopped at a content line
C6_Witness ==
    /\ op = "get_comment"
    /\ pc = "done"
    /\ AllLines = << Text(<<" ", "\f", "#", "\n">>), Text(<<"#", " ", "a", "\n">>),
                     Text(<<" ", "a", " ", "\n">>) >>
    /\ result = Text(<<"a">>)

\* C7: without a limit get_content returns, in order, the lines that are
\* neither blank nor comments, each without its trailing CR and LF characters
C7_Content ==
    op = "get_content" /\ pc = "done" /\ limit = 0 => result = ContentOf(AllLines)

\* C7 witness: a comment was dropped and two content lines were kept, one
\* of them with its blanks and without its CR LF
C7_Witness ==
    /\ op = "get_content"
    /\ pc = "done"
    /\ limit = 0
    /\ AllLines = << Text(<<"#", " ", "a", "\n">>), Text(<<" ", "a", " ", "\r", "\n">>),
                     Text(<<"a", "\n">>) >>
    /\ result = << Text(<<" ", "a", " ">>), Text(<<"a">>) >>

\* C8: with a limit n >= 1 get_content returns the first min(n, k) entries
\* of the unlimited result of length k, never more than n
C8_Limit ==
    op = "get_content" /\ pc = "done" /\ limit >= 1 =>
        /\ result = SubSeq(ContentOf(AllLines), 1, Min(limit, Len(ContentOf(AllLines))))
        /\ Len(result) <= limit

\* C8 witness: the limit cut the result short
C8_Witness ==
    /\ op = "get_content"
    /\ pc = "done"
    /\ limit = 1
    /\ Len(ContentOf(AllLines)) = 2
    /\ Len(result) = 1

\* C9: the mode handed to cman.open contains 't': the supplied mode when
\* that holds 't', the supplied mode followed by 't' otherwise; load opens
\* with 'rt', save with 'wt', and no handle is opened with 'b' in the mode
C9_TextMode ==
    openCount = 1 =>
        /\ HasChar(modeOpen, "t")
        /\ modeOpen = IF HasChar(modeArg, "t") THEN modeArg ELSE modeArg \o <<"t">>
        /\ op = "load" => modeOpen = <<"r", "t">>
        /\ op = "save" => modeOpen = <<"w", "t">>
        /\ handle = "open" /\ kind = "path" => ~HasChar(modeOpen, "b")

\* C9 witness: the caller passed 'r' and the block runs on a handle opened
\* with 'rt'
C9_Witness ==
    /\ op = "openx"
    /\ pc = "block"
    /\ modeArg = <<"r">>
    /\ modeOpen = <<"r", "t">>
    /\ handle = "open"

\* C10 as stated: for every limit, when get_content abandons the scan the
\* count of collected lines equals the limit
C10_AsStated ==
    op = "get_content" /\ exitKind = "break" => limit # 0 /\ Len(content) = limit

\* C10 amended: get_content abandons the scan only with a non-zero limit and
\* a count of collected lines that has reached it: the count equals a
\* positive limit, and is zero, above the limit, for a negative one
C10_EarlyStop ==
    op = "get_content" /\ exitKind = "break" =>
        /\ limit # 0
        /\ Len(content) >= limit
        /\ limit > 0 => Len(content) = limit
        /\ limit < 0 => Len(content) = 0

\* C10 witness: the scan was abandoned with two lines collected, the limit
C10_Witness ==
    /\ op = "get_content"
    /\ exitKind = "break"
    /\ limit = 2
    /\ Len(content) = 2
====
